---- MODULE Spec2Model ----
(***************************************************************************)
(* Federated training of RecVAE (recvae/federated_train.py): the client    *)
(* pool (Clients), the aggregation server (Server), the pairwise-masking   *)
(* perturbation, the communication ledger, the training schedule with      *)
(* early stopping and checkpointing, and the restoration attack.           *)
(*                                                                         *)
(* Tensors are sequences of rows, a row is a sequence of integers.         *)
(* Values the code computes by division (means, megabytes) are exact       *)
(* rationals <<numerator, denominator>> in lowest terms; floating-point    *)
(* rounding is not modelled.                                               *)
(***************************************************************************)
EXTENDS Integers, Sequences, FiniteSets, TLC

(* ------------------------------ bounds -------------------------------- *)

\* largest number of epochs (args.epochs) explored
MaxEpochs == 4
\* validation NDCG values are drawn from 0..MaxNdcg
MaxNdcg == 2
\* largest early-stop patience (args.early_stop) explored
MaxEarlyStop == 2
\* largest number of users (n_users) and largest batch size explored
MaxUsers == 3
\* largest number of inner passes (args.n_enc_epochs, args.n_dec_epochs)
MaxInner == 2
\* largest fan-out (args.xi) explored
MaxXi == 2
\* largest number of (sender, recipient) pairs of one perturbation explored
MaxPairs == 6

(* --------------------------- program constants ------------------------ *)

\* 1 << 20: bytes per megabyte
MB == 1048576
\* best_ndcg = -np.inf: below every NDCG value (NDCG >= 0)
NegInf == -1
\* bytes of one float32 tensor element, as counted by utils.get_size
ElemBytes == 4
\* number of items (dataset.n_items) of the modelled data set
NItems == 4

\* param.grad is None; also: no checkpoint file yet
None == <<>>

\* the two trainable tensors of the model: one of model.encoder (fc1.weight,
\* shape hidden x n_items) and one of model.decoder (weight, n_items x latent)
ParamNames == {"enc", "dec"}

\* the optimizer that owns a parameter
Owner(name) ==
    IF name = "enc" THEN "optimizer_encoder" ELSE "optimizer_decoder"

(* ------------------------------ rationals ----------------------------- *)

Abs(x) == IF x < 0 THEN -x ELSE x

Min(a, b) == IF a < b THEN a ELSE b

RECURSIVE GCD(_, _)
GCD(a, b) == IF b = 0 THEN a ELSE GCD(b, a % b)

\* n / d in lowest terms, d > 0
Rat(n, d) ==
    LET g == GCD(Abs(n), Abs(d))
        s == IF d < 0 THEN -1 ELSE 1
    IN  <<(s * n) \div g, (s * d) \div g>>

RAdd(p, q) ==
    LET g == GCD(p[2], q[2])
        l == (p[2] \div g) * q[2]
    IN  Rat(p[1] * (l \div p[2]) + q[1] * (l \div q[2]), l)

RDivInt(p, k) ==
    LET g == GCD(Abs(p[1]), k)
    IN  Rat(p[1] \div g, p[2] * (k \div g))

RLess(p, q) == p[1] * q[2] < q[1] * p[2]

(* ------------------------------- tensors ------------------------------ *)

\* grads -= share (elementwise)
TSub(a, b) ==
    [r \in 1..Len(a) |-> [c \in 1..Len(a[r]) |-> a[r][c] - b[r][c]]]

\* grads_to_send[name] += share (elementwise)
TAdd(a, b) ==
    [r \in 1..Len(a) |-> [c \in 1..Len(a[r]) |-> a[r][c] + b[r][c]]]

\* grad / clients_num (elementwise, exact)
TDivInt(a, k) ==
    [r \in 1..Len(a) |-> [c \in 1..Len(a[r]) |-> Rat(a[r][c], k)]]

\* sum of two tensors of rationals (elementwise)
RTAdd(a, b) ==
    [r \in 1..Len(a) |-> [c \in 1..Len(a[r]) |-> RAdd(a[r][c], b[r][c])]]

\* the rows of a matrix as columns (numpy .T)
Transpose(a) ==
    [c \in 1..Len(a[1]) |-> [r \in 1..Len(a) |-> a[r][c]]]

\* number of elements of a tensor
NumEl(a) == IF Len(a) = 0 THEN 0 ELSE Len(a) * Len(a[1])

\* shape of a parameter: encoder weight 1 x n_items, decoder weight n_items x 1
Rows(name) == IF name = "enc" THEN 1 ELSE NItems
Cols(name) == IF name = "enc" THEN NItems ELSE 1

\* utils.get_size of a tensor, in bytes
get_size(t) == ElemBytes * NumEl(t)

\* utils.get_size of the model's state dict (the trainable tensors), in bytes
get_size_state == ElemBytes * (Rows("enc") * Cols("enc") + Rows("dec") * Cols("dec"))

RECURSIVE SeqSum(_)
SeqSum(s) == IF Len(s) = 0 THEN 0 ELSE s[1] + SeqSum(Tail(s))

Range(s) == {s[i] : i \in 1..Len(s)}


(* --------------------------- configuration ---------------------------- *)

\* args.dropout_prob, in percent
DropoutProb == 50

BaseArgs ==
    [perturb_method |-> "MPC", xi |-> 1, n_users |-> 2, batch_size |-> 2,
     epochs |-> 2, early_stop |-> 2, alternating |-> TRUE,
     n_enc_epochs |-> 1, n_dec_epochs |-> 1, restore_epochs |-> {1},
     enc_name |-> "enc", dec_name |-> "dec", use_enc_grad |-> FALSE,
     dropout_prob |-> DropoutProb]

\* schedules: both modes, all inner pass counts, all restore epochs, one
\* cohort per pass, no share exchange
SchedArgs ==
    {[BaseArgs EXCEPT !.alternating = alt, !.n_enc_epochs = ne,
                      !.n_dec_epochs = nd, !.restore_epochs = re, !.xi = 0] :
        alt \in BOOLEAN, ne \in 1..MaxInner, nd \in 1..MaxInner,
        re \in SUBSET (1..2)}

\* several cohorts per pass (batch 1, or a last cohort smaller than the
\* rest), or several passes of one cohort that exchanges shares
CohortArgs ==
    {[BaseArgs EXCEPT !.alternating = alt, !.n_dec_epochs = nd, !.epochs = 1,
                      !.n_users = pop[1], !.batch_size = pop[2], !.xi = pop[3]] :
        alt \in BOOLEAN, nd \in 1..MaxInner,
        pop \in {<<2, 1, 0>>, <<2, 2, 1>>, <<MaxUsers, 2, 0>>, <<MaxUsers, 2, 1>>}}

\* populations <<n_users, batch_size, xi>> whose perturbation stays within
\* MaxPairs (sender, recipient) pairs
JointPops ==
    {pop \in (1..MaxUsers) \X (1..MaxUsers) \X (0..MaxXi) :
        Min(pop[1], pop[2]) * pop[3] <= MaxPairs}

\* joint mode with every population, batch size and fan-out
JointArgs ==
    {[BaseArgs EXCEPT !.alternating = FALSE, !.epochs = 1,
                      !.n_users = pop[1], !.batch_size = pop[2], !.xi = pop[3]] :
        pop \in JointPops}

\* early stopping and checkpointing: every epoch limit and patience
StopArgs ==
    {[BaseArgs EXCEPT !.alternating = FALSE, !.restore_epochs = {}, !.xi = 0,
                      !.epochs = e, !.early_stop = p] :
        e \in 1..MaxEpochs, p \in (-1)..MaxEarlyStop}

\* the identity perturbation (perturb_method other than 'MPC')
IdentityArgs ==
    {[BaseArgs EXCEPT !.perturb_method = "none", !.alternating = alt,
                      !.n_users = n, !.batch_size = n] :
        alt \in BOOLEAN, n \in 1..MaxUsers}

\* the restoration attack's options: same or different gradient names,
\* with and without the encoder refinement
RestoreArgs ==
    {[BaseArgs EXCEPT !.alternating = alt, !.enc_name = en,
                      !.use_enc_grad = ue, !.epochs = 1] :
        alt \in BOOLEAN, en \in ParamNames, ue \in BOOLEAN}

Args == SchedArgs \cup CohortArgs \cup JointArgs \cup StopArgs \cup IdentityArgs \cup RestoreArgs

(* ------------------------------- state -------------------------------- *)

VARIABLES
    args,                \* the parsed options (never change)
    pc,                  \* where the program is
    error,               \* the exception that ended the program, "" if none
    \* Server.train locals
    epoch,               \* the loop variable of Server.train (0-based)
    best_ndcg,
    best_epoch,
    patience,
    phase,               \* which Server.run call is active: enc, dec, joint
    \* Server.run locals
    opts,                \* the optimizers of this call
    n_epochs,            \* passes asked of this call
    pass,                \* passes started by this call
    pending,             \* users of the current pass not yet in a cohort
    run_dropout,         \* dropout_prob of this call
    to_restore,          \* the call's local restore flag
    \* one round
    uids,                \* the cohort, in the sampler's order
    clients_grads,       \* uid -> name -> gradient, in insertion order
    \* Server fields
    param,               \* self.model: name -> value (the number of steps taken)
    grad,                \* self.model's .grad accumulators: name -> tensor or None
    saved,               \* the checkpoint at saved_path, None before the first
    restore_res,         \* res of the restoration attack that just ran
    \* Clients fields
    cmodel,              \* self.model of the client pool: loaded values
    cslot,               \* its .grad slots: name -> tensor or None
    communication_cost,  \* the ledger
    \* history, for stating properties
    ndcgs,               \* validation NDCG of every finished epoch
    epoch_params,        \* server model at the end of every finished epoch
    elog,                \* what the current epoch has done so far
    cohort_lens,         \* cohort size of every completed Clients.train call
    run_flag,            \* to_restore as passed to the active Server.run call
    raw_grads,           \* the round's gradients as the users computed them
    drawn                \* the exchange of the Clients.train call that just
                         \* returned: recipients and shares drawn

train_vars == <<epoch, best_ndcg, best_epoch, patience, phase>>
run_vars == <<opts, n_epochs, pass, pending, run_dropout, to_restore>>
round_vars == <<uids, clients_grads>>
server_vars == <<param, grad, saved, restore_res>>
client_vars == <<cmodel, cslot, communication_cost>>
hist_vars == <<ndcgs, epoch_params, elog, cohort_lens, run_flag, raw_grads,
               drawn>>

vars == <<args, pc, error, train_vars, run_vars, round_vars, server_vars,
          client_vars, hist_vars>>

\* Server.__init__, Clients.__init__ and the first lines of Server.train
InitWith(A) ==
    /\ args \in A
    /\ pc = "train_loop"
    /\ error = ""
    /\ epoch = 0
    /\ best_ndcg = NegInf
    /\ best_epoch = 0
    /\ patience = args.early_stop
    /\ phase = "none"
    /\ opts = {}
    /\ n_epochs = 0
    /\ pass = 0
    /\ pending = {}
    /\ run_dropout = 0
    /\ to_restore = FALSE
    /\ uids = <<>>
    /\ clients_grads = <<>>
    /\ param = [n \in ParamNames |-> 0]
    /\ grad = [n \in ParamNames |-> None]
    /\ saved = None
    /\ restore_res = <<>>
    /\ cmodel = [n \in ParamNames |-> 0]
    /\ cslot = [n \in ParamNames |-> None]
    /\ communication_cost = <<>>
    /\ ndcgs = <<>>
    /\ epoch_params = <<>>
    /\ elog = <<>>
    /\ cohort_lens = <<>>
    /\ run_flag = FALSE
    /\ raw_grads = <<>>
    /\ drawn = <<>>

Init == InitWith(Args)


(* --------------------------- Clients (lines 20-115) ------------------- *)

\* the exceptions that end the program, by the line that raises them
ErrNoNeighbor == "ValueError at line 55 (sample_neighbor)"
ErrUnpack == "ValueError at line 106 (unpack)"
ErrValues == "AttributeError at line 71 (values)"
ErrShape == "AttributeError at line 197 (shape)"
ErrKMeans == "ValueError at line 202 (fit_predict)"
ErrNoCheckpoint == "FileNotFoundError at line 285 (load)"

\* those raised inside Clients.train
TrainErrors == {ErrNoNeighbor, ErrUnpack, ErrValues}

\* named_parameters() order of the trainable tensors
ParamSeq == <<"enc", "dec">>

\* utils.sample_neighbor(n, xi): for every index, xi distinct other indices
\* (each set is walked in ascending order)
sample_neighbor(n, xi) ==
    {f \in [1..n -> SUBSET (1..n)] :
        \A i \in 1..n : i \notin f[i] /\ Cardinality(f[i]) = xi}

\* the k-th smallest element of a set of numbers
RECURSIVE Kth(_, _)
Kth(S, k) ==
    LET m == CHOOSE x \in S : \A y \in S : x <= y
    IN  IF k = 1 THEN m ELSE Kth(S \ {m}, k - 1)

\* a share that is taken from the sender and credited to nobody
MPCShareLost(cg, i, j, name, share) ==
    [cg EXCEPT ![i].g[name] = TSub(@, share)]

\* lines 61-63: one share leaves sender i for recipient j
MPCShare(cg, i, j, name, share) ==
    LET sub == [cg EXCEPT ![i].g[name] = TSub(@, share)]
    IN  [sub EXCEPT ![j].g[name] = TAdd(@, share)]

\* lines 58-64: the three nested loops, step t of total; the share of step t
\* is se[..] or sd[..] by the parameter it is drawn for
RECURSIVE MPCLoop(_, _, _, _, _, _)
MPCLoop(cg, to, se, sd, xi, t) ==
    IF t > Len(cg) * xi * Len(ParamSeq) THEN cg
    ELSE LET pair == (t - 1) \div Len(ParamSeq) + 1
             i == (pair - 1) \div xi + 1
             k == ((pair - 1) % xi) + 1
             name == ParamSeq[((t - 1) % Len(ParamSeq)) + 1]
             share == IF name = "enc" THEN se[pair] ELSE sd[pair]
         IN  MPCLoop(MPCShare(cg, i, Kth(to[i], k), name, share),
                     to, se, sd, xi, t + 1)

\* a cost that counts the shares of the first parameter only
RECURSIVE EncShareBytes(_, _, _)
EncShareBytes(se, sd, pair) ==
    IF pair > Len(se) THEN 0
    ELSE get_size(se[pair]) + EncShareBytes(se, sd, pair + 1)

\* line 64 summed: bytes of all shares drawn
RECURSIVE ShareBytes(_, _, _)
ShareBytes(se, sd, pair) ==
    IF pair > Len(se) THEN 0
    ELSE get_size(se[pair]) + get_size(sd[pair]) + ShareBytes(se, sd, pair + 1)

\* an exchange after which the first user also gives away a share of ones
MPCExtraShare(cg, to, se, sd, xi) ==
    MPCShareLost(MPCLoop(cg, to, se, sd, xi, 1), 1, 1, "dec",
                 [r \in 1..Rows("dec") |-> [c \in 1..Cols("dec") |-> 1]])

\* Clients.MPC_perturb: the perturbed mapping
MPC_perturb(cg, to, se, sd, xi) == MPCLoop(cg, to, se, sd, xi, 1)

\* Clients.count_update_communication_cost, in bytes (compressed = False:
\* para_percent is 1 for every tensor)
RECURSIVE UpdateBytes(_, _)
UpdateBytes(cg, k) ==
    IF k > Len(cg) THEN 0
    ELSE get_size(cg[k].g["enc"]) + get_size(cg[k].g["dec"]) + UpdateBytes(cg, k + 1)

\* an upload that counts only the non-zero elements of every tensor
RECURSIVE LiveBytes(_, _)
LiveBytes(cg, k) ==
    IF k > Len(cg) THEN 0
    ELSE SeqSum([i \in 1..Len(ParamSeq) |->
                    LET t == cg[k].g[ParamSeq[i]]
                    IN  ElemBytes * Cardinality(
                            {rc \in (1..Len(t)) \X (1..Len(t[1])) :
                                t[rc[1]][rc[2]] # 0})])
         + LiveBytes(cg, k + 1)

compressed_update_cost(cg) == Rat(LiveBytes(cg, 1), MB)

count_update_communication_cost(cg) == Rat(UpdateBytes(cg, 1), MB)

\* self.communication_cost[-1] += x
LedgerAdd(cc, x) == [cc EXCEPT ![Len(cc)] = RAdd(@, x)]

\* an entry that is never divided by the cohort size
LedgerNoDiv(cc, k) == cc

\* self.communication_cost[-1] /= len(uids)
LedgerDiv(cc, k) == [cc EXCEPT ![Len(cc)] = RDivInt(@, k)]

\* lines 84-92: load the server's state, open the round's ledger entry
ClientsTrainLoad ==
    /\ pc = "clients_train"
    /\ cmodel' = param
    /\ communication_cost' =
           Append(communication_cost, Rat(get_size_state * Len(uids), MB))
    /\ clients_grads' = <<>>
    /\ pc' = "client_grad"
    /\ UNCHANGED <<args, error, train_vars, run_vars, uids, server_vars, cslot,
                   hist_vars>>

\* slots that keep what the user before left in them
KeepGrad(slot) == slot

\* line 97: self.model.zero_grad(set_to_none=True)
ClientZeroGrad(slot) == [n \in ParamNames |-> None]

\* line 98: loss.backward() adds the loss's gradient into the slots
Backward(slot, own) ==
    [n \in ParamNames |-> IF slot[n] = None THEN own[n] ELSE TAdd(slot[n], own[n])]

\* lines 94-104: the next user of the cohort computes its gradients and a
\* copy of the slots is stored under its uid; GD maps a user and a parameter
\* name to the gradients of the loss on the user's data
ClientGrad(GD) ==
    /\ pc = "client_grad"
    /\ \E ge \in GD[uids[Len(clients_grads) + 1]]["enc"],
          gd \in GD[uids[Len(clients_grads) + 1]]["dec"] :
          LET own == [n \in ParamNames |-> IF n = "enc" THEN ge ELSE gd]
              slot == Backward(ClientZeroGrad(cslot), own)
          IN  /\ cslot' = slot
              /\ clients_grads' = Append(clients_grads,
                     [uid |-> uids[Len(clients_grads) + 1], g |-> slot])
    /\ pc' = IF Len(clients_grads) + 1 = Len(uids) THEN "perturb" ELSE "client_grad"
    /\ UNCHANGED <<args, error, train_vars, run_vars, uids, server_vars,
                   cmodel, communication_cost, hist_vars>>

\* the shares of the cohort's (sender, recipient) pairs for one parameter:
\* the pairs of a sender follow one another, SD gives the sender's shares
PairShares(SD, name) ==
    LET pairs == 1..(Len(uids) * args.xi)
    IN  {f \in [pairs -> UNION {SD[u][name] : u \in Range(uids)}] :
            \A p \in pairs : f[p] \in SD[uids[((p - 1) \div args.xi) + 1]][name]}

\* lines 106-112 with perturb_fuc = MPC_perturb; SD maps a sender and a
\* parameter name to the shares randn_like may draw
ClientsPerturbMPC(SD) ==
    /\ pc = "perturb"
    /\ args.perturb_method = "MPC"
    /\ args.xi <= Len(uids) - 1
    /\ \E to \in sample_neighbor(Len(uids), args.xi) :
       \E se \in PairShares(SD, "enc") :
       \E sd \in PairShares(SD, "dec") :
          LET perturb_grads == MPC_perturb(clients_grads, to, se, sd, args.xi)
              cost == Rat(ShareBytes(se, sd, 1), MB)
              c1 == LedgerAdd(communication_cost, cost)
              c2 == LedgerAdd(c1, count_update_communication_cost(perturb_grads))
          IN  /\ clients_grads' = perturb_grads
              /\ communication_cost' = LedgerDiv(c2, Len(uids))
              /\ drawn' = <<[to |-> to, se |-> se, sd |-> sd]>>
    /\ cohort_lens' = Append(cohort_lens, Len(uids))
    /\ raw_grads' = clients_grads
    /\ pc' = "aggregate"
    /\ UNCHANGED <<args, error, train_vars, run_vars, uids, server_vars, cmodel,
                   cslot, ndcgs, epoch_params, elog, run_flag>>

\* line 55 when xi > n - 1: sample_neighbor cannot draw xi distinct others
ClientsPerturbNoNeighbor ==
    /\ pc = "perturb"
    /\ args.perturb_method = "MPC"
    /\ args.xi > Len(uids) - 1
    /\ error' = ErrNoNeighbor
    /\ pc' = "crashed"
    /\ UNCHANGED <<args, train_vars, run_vars, round_vars, server_vars,
                   client_vars, hist_vars>>

\* lines 43 and 106-110 with perturb_fuc = lambda g: g: the mapping itself is
\* unpacked into (perturb_grads, communication_cost). A mapping of two users
\* unpacks into its two keys: the second uid is added to the ledger entry
\* and line 110 then asks an int for .values(); any other size cannot unpack.
ClientsPerturbIdentity ==
    /\ pc = "perturb"
    /\ args.perturb_method # "MPC"
    /\ IF Len(clients_grads) = 2
       THEN /\ communication_cost' =
                   LedgerAdd(communication_cost, Rat(clients_grads[2].uid, 1))
            /\ error' = ErrValues
       ELSE /\ communication_cost' = communication_cost
            /\ error' = ErrUnpack
    /\ pc' = "crashed"
    /\ UNCHANGED <<args, train_vars, run_vars, round_vars, server_vars, cmodel,
                   cslot, hist_vars>>


(* --------------------------- Server (lines 118-352) ------------------- *)

\* lines 176-180: sum over the users of grad / clients_num, users k..
RECURSIVE AggSum(_, _, _)
AggSum(cg, name, k) ==
    IF k > Len(cg)
    THEN [r \in 1..Rows(name) |-> [c \in 1..Cols(name) |-> Rat(0, 1)]]
    ELSE RTAdd(TDivInt(cg[k].g[name], Len(cg)), AggSum(cg, name, k + 1))

\* the sum over the users, never divided by their number
RECURSIVE SumUsers(_, _, _)
SumUsers(cg, name, k) ==
    IF k > Len(cg)
    THEN [r \in 1..Rows(name) |-> [c \in 1..Cols(name) |-> 0]]
    ELSE TAdd(cg[k].g[name], SumUsers(cg, name, k + 1))

aggregated_unscaled(cg, name) == TDivInt(SumUsers(cg, name, 1), 1)

aggregated_gradients(cg, name) == AggSum(cg, name, 1)

\* lines 185-188: initialise the accumulator, or add to it
Accumulate(old, agg) == IF old = None THEN agg ELSE RTAdd(old, agg)

\* Server.aggregate_gradients (lines 175-188), called at line 232
ServerAggregate ==
    /\ pc = "aggregate"
    /\ grad' = [n \in ParamNames |->
                   Accumulate(grad[n], aggregated_gradients(clients_grads, n))]
    /\ pc' = "step"
    /\ drawn' = <<>>
    /\ UNCHANGED <<args, error, train_vars, run_vars, round_vars, param, saved,
                   restore_res, client_vars, ndcgs, epoch_params, elog,
                   cohort_lens, run_flag, raw_grads>>

\* a step that moves every parameter, owned or not
StepEveryParam(p, os) == [n \in ParamNames |-> p[n] + 1]

\* optimizer.step() of the call's optimizers: an owned parameter takes a new value
StepParam(p, os) == [n \in ParamNames |-> IF Owner(n) \in os THEN p[n] + 1 ELSE p[n]]

\* the round is over: its locals are dead until the next round assigns them
EndRound ==
    /\ uids' = <<>>
    /\ clients_grads' = <<>>
    /\ raw_grads' = <<>>
    /\ drawn' = <<>>

\* a step that also clears the accumulators of the stepping optimizers
StepGradCleared(gr, os) ==
    [n \in ParamNames |-> IF Owner(n) \in os THEN None ELSE gr[n]]

\* optimizer.step() reads the accumulators and leaves them as they are
StepGrad(gr, os) == gr

\* lines 235-239: step the optimizers, then look at the restore flag
ServerStep ==
    /\ pc = "step"
    /\ param' = StepParam(param, opts)
    /\ grad' = StepGrad(grad, opts)
    /\ IF to_restore THEN UNCHANGED <<round_vars, raw_grads, drawn>> ELSE EndRound
    /\ elog' = Append(elog, [ev |-> "round", phase |-> phase, opts |-> opts,
                             dropout |-> run_dropout, n |-> Len(uids),
                             pass |-> pass, epoch |-> epoch])
    /\ pc' = IF to_restore THEN "restore" ELSE "run_loop"
    /\ UNCHANGED <<args, error, train_vars, run_vars, saved,
                   restore_res, client_vars, ndcgs, epoch_params, cohort_lens,
                   run_flag>>

(* ---- the restoration attack (lines 190-219) ---- *)

\* lines 195-198: rows must be items
Orient(m) == IF Len(m) # NItems THEN Transpose(m) ELSE m

\* np.sum(m, axis=1).nonzero()[0]: the rows whose sum is not zero, ascending
RECURSIVE NonzeroFrom(_, _)
NonzeroFrom(m, r) ==
    IF r > Len(m) THEN <<>>
    ELSE IF SeqSum(m[r]) # 0 THEN <<r>> \o NonzeroFrom(m, r + 1)
         ELSE NonzeroFrom(m, r + 1)

NonzeroIdx(m) == NonzeroFrom(m, 1)

\* the largest k with k * k <= x
RECURSIVE ISqrtFrom(_, _)
ISqrtFrom(x, k) == IF (k + 1) * (k + 1) > x THEN k ELSE ISqrtFrom(x, k + 1)

\* np.linalg.norm(row, ord=2); exact for the rows used here (one column,
\* or a sum of squares that is a square)
RowNorm(row) == ISqrtFrom(SeqSum([c \in 1..Len(row) |-> row[c] * row[c]]), 0)

\* KMeans(n_clusters=2).fit_predict(rows) for two or more rows: any labelling
\* with both clusters used when the rows differ, label 0 for all when they
\* are all the same point
ClusterTwo(rows) ==
    IF \A i, j \in 1..Len(rows) : rows[i] = rows[j]
    THEN {[i \in 1..Len(rows) |-> 0]}
    ELSE {l \in [1..Len(rows) -> {0, 1}] : {l[i] : i \in 1..Len(rows)} = {0, 1}}

\* sum of the norms of the rows with the given label
NormSum(rows, labels, lab) ==
    SeqSum([i \in 1..Len(rows) |-> IF labels[i] = lab THEN RowNorm(rows[i]) ELSE 0])

LabelCount(labels, lab) == Cardinality({i \in 1..Len(labels) : labels[i] = lab})

\* lines 205-207: g_norm1 < g_norm0; the mean over no rows is NaN and
\* compares false
NormLess(rows, labels) ==
    /\ LabelCount(labels, 1) > 0
    /\ LabelCount(labels, 0) > 0
    /\ RLess(Rat(NormSum(rows, labels, 1), LabelCount(labels, 1)),
             Rat(NormSum(rows, labels, 0), LabelCount(labels, 0)))

\* labels that are never flipped
LabelsAsGiven(rows, labels) == labels

\* lines 207-208: x_pred_ ^= 1 when cluster 1 has the smaller mean norm
FinalLabels(rows, labels) ==
    IF NormLess(rows, labels)
    THEN [i \in 1..Len(labels) |-> 1 - labels[i]]
    ELSE labels

\* lines 209-213: the predicted vector
Predict(idx, x_pred_, euc_grads, use_enc) ==
    [item \in 1..NItems |->
        IF \/ \E k \in 1..Len(idx) : idx[k] = item /\ x_pred_[k] = 1
           \/ use_enc /\ item \in Range(NonzeroIdx(euc_grads))
        THEN 1 ELSE 0]

\* lines 193-213 for one user: every result the attack may have for the
\* user's gradients g; next to the prediction a result records the decoder
\* gradient it was made from and the labels the clustering returned
RestoreUser(g, enc_name, dec_name, use_enc) ==
    IF enc_name = dec_name
    THEN \* euc_grads = None; line 197 reads None.shape
         {[err |-> ErrShape, x_pred |-> <<>>, dec |-> <<>>, labels |-> <<>>]}
    ELSE LET dec_grads == Orient(g[dec_name])
             euc_grads == Orient(g[enc_name])
             idx == NonzeroIdx(dec_grads)
             rows == [k \in 1..Len(idx) |-> dec_grads[idx[k]]]
         IN  IF Len(rows) < 2
             THEN \* KMeans refuses fewer samples than clusters
                  {[err |-> ErrKMeans, x_pred |-> <<>>, dec |-> dec_grads,
                    labels |-> <<>>]}
             ELSE {[err |-> "",
                    x_pred |-> Predict(idx, FinalLabels(rows, labels),
                                       euc_grads, use_enc),
                    dec |-> dec_grads,
                    labels |-> labels] :
                        labels \in ClusterTwo(rows)}

\* lines 192-214 from user k on, res holding the results so far: the loop
\* ends at the first error
RECURSIVE RestoreLoop(_, _, _)
RestoreLoop(cg, k, res) ==
    IF k > Len(cg) THEN {[err |-> "", res |-> res]}
    ELSE UNION {IF o.err # "" THEN {[err |-> o.err, res |-> res]}
                ELSE RestoreLoop(cg, k + 1,
                         Append(res, [uid |-> cg[k].uid, x_pred |-> o.x_pred,
                                      dec |-> o.dec, labels |-> o.labels])) :
                    o \in RestoreUser(cg[k].g, args.enc_name, args.dec_name,
                                      args.use_enc_grad)}

\* Server.restore_from_gradient: every outcome the attack may have
restore_from_gradient(cg) == RestoreLoop(cg, 1, <<>>)

\* the flag survives the attack
FlagKept(flag) == flag

\* line 240: to_restore = False
FlagAfterRestore(flag) == FALSE

\* lines 239-241: the flag is cleared, then the attack runs on this cohort
ServerRestore ==
    /\ pc = "restore"
    /\ to_restore' = FlagAfterRestore(to_restore)
    /\ \E out \in restore_from_gradient(clients_grads) :
          /\ restore_res' = out.res
          /\ error' = out.err
          /\ pc' = IF out.err = "" THEN "run_loop" ELSE "crashed"
    /\ elog' = Append(elog, [ev |-> "restore", phase |-> phase, opts |-> opts,
                             dropout |-> run_dropout, n |-> Len(uids),
                             pass |-> pass, epoch |-> epoch])
    /\ EndRound
    /\ UNCHANGED <<args, train_vars, opts, n_epochs, pass, pending, run_dropout,
                   param, grad, saved, client_vars, ndcgs, epoch_params,
                   cohort_lens, run_flag>>


(* ---- Server.run (lines 221-241) ---- *)

Users == 0..(args.n_users - 1)

\* the next batch the shuffled DataLoader hands out from the users left in
\* this pass: batch_size of them (fewer at the end), in any order
Cohorts(left) ==
    {c \in [1..Min(args.batch_size, Cardinality(left)) -> left] :
        \A i, j \in 1..Len(c) : i # j => c[i] # c[j]}

\* a round that does not zero its accumulators
ZeroGradSkipped(gr, os) == gr

\* optimizer.zero_grad(set_to_none=True) for the call's optimizers
ZeroGrad(gr, os) == [n \in ParamNames |-> IF Owner(n) \in os THEN None ELSE gr[n]]

\* lines 223-229: the next cohort (of this pass, or the first of the next
\* pass), zero the accumulators of the call's optimizers, call Clients.train
RunRound ==
    /\ pc = "run_loop"
    /\ \/ /\ pending # {}
          /\ pass' = pass
          /\ \E c \in Cohorts(pending) :
                /\ uids' = c
                /\ pending' = pending \ Range(c)
       \/ /\ pending = {}
          /\ pass < n_epochs
          /\ pass' = pass + 1
          /\ \E c \in Cohorts(Users) :
                /\ uids' = c
                /\ pending' = Users \ Range(c)
    /\ grad' = ZeroGrad(grad, opts)
    /\ restore_res' = <<>>
    /\ pc' = "clients_train"
    /\ UNCHANGED <<args, error, train_vars, opts, n_epochs, run_dropout,
                   to_restore, clients_grads, param, saved, client_vars,
                   hist_vars>>

\* Server.run returns: after the encoder call comes update_prior, after the
\* decoder call or the joint call comes the evaluation
RunReturn ==
    /\ pc = "run_loop"
    /\ pending = {}
    /\ pass = n_epochs
    /\ pc' = IF phase = "enc" THEN "update_prior" ELSE "evaluate"
    /\ restore_res' = <<>>
    /\ UNCHANGED <<args, error, train_vars, run_vars, round_vars, param, grad,
                   saved, client_vars, hist_vars>>

(* ---- Server.train (lines 243-281) ---- *)

\* a call self.run(opts, n_epochs, dropout_prob, to_restore) begins
EnterRun(ph, os, n, dropout, restore) ==
    /\ phase' = ph
    /\ opts' = os
    /\ n_epochs' = n
    /\ run_dropout' = dropout
    /\ to_restore' = restore
    /\ run_flag' = restore
    /\ pass' = 0
    /\ pending' = {}
    /\ pc' = "run_loop"

\* a joint call that steps the encoder's optimizer only
JointOptsEncOnly == {"optimizer_encoder"}

\* line 257: opts of the joint call
JointOpts == {"optimizer_encoder", "optimizer_decoder"}

\* a decoder call that keeps the configured dropout
DecDropoutKept == DropoutProb

\* line 255: dropout_prob of the decoder call
DecDropout == 0

\* a checkpoint on every epoch that ties the best
ImprovedOrTied(ndcg5, best) == ndcg5 >= best

\* line 270: ndcg5 > best_ndcg
Improved(ndcg5, best) == ndcg5 > best

\* a break one epoch before the patience runs out
ShouldStopAtOne(p) == p = 1

\* line 278: patience == 0
ShouldStop(p) == p = 0

\* lines 247-253 and 257: an epoch begins with the encoder call (alternating)
\* or with the only call (joint)
TrainEpoch ==
    /\ pc = "train_loop"
    /\ epoch < args.epochs
    /\ IF args.alternating
       THEN EnterRun("enc", {"optimizer_encoder"}, args.n_enc_epochs,
                     args.dropout_prob, FALSE)
       ELSE EnterRun("joint", JointOpts, 1,
                     args.dropout_prob, (epoch + 1) \in args.restore_epochs)
    /\ elog' = <<>>
    /\ UNCHANGED <<args, error, epoch, best_ndcg, best_epoch, patience,
                   round_vars, server_vars, client_vars, ndcgs, epoch_params,
                   cohort_lens, raw_grads, drawn>>

\* lines 254-255: the prior-update hook, then the decoder call
UpdatePrior ==
    /\ pc = "update_prior"
    /\ EnterRun("dec", {"optimizer_decoder"}, args.n_dec_epochs, DecDropout,
                (epoch + 1) \in args.restore_epochs)
    /\ elog' = Append(elog, [ev |-> "prior", phase |-> "prior", opts |-> {},
                             dropout |-> 0, n |-> 0, pass |-> 0,
                             epoch |-> epoch])
    /\ UNCHANGED <<args, error, epoch, best_ndcg, best_epoch, patience,
                   round_vars, server_vars, client_vars, ndcgs, epoch_params,
                   cohort_lens, raw_grads, drawn>>

\* lines 270-279 decide: the loop goes on, or ends (break, or range exhausted)
AfterEpoch(stop) ==
    /\ epoch' = IF stop THEN epoch ELSE epoch + 1
    /\ pc' = IF stop \/ epoch + 1 >= args.epochs THEN "trained" ELSE "train_loop"

\* lines 264-279: evaluate on the validation split (ndcg5 is the metric's
\* value), checkpoint on improvement, else lose patience
TrainEvaluate ==
    /\ pc = "evaluate"
    /\ \E ndcg5 \in 0..MaxNdcg :
          /\ ndcgs' = Append(ndcgs, ndcg5)
          /\ IF Improved(ndcg5, best_ndcg)
             THEN /\ best_ndcg' = ndcg5
                  /\ best_epoch' = epoch + 1
                  /\ patience' = args.early_stop
                  /\ saved' = <<param>>
                  /\ AfterEpoch(FALSE)
             ELSE /\ patience' = patience - 1
                  /\ AfterEpoch(ShouldStop(patience - 1))
                  /\ UNCHANGED <<best_ndcg, best_epoch, saved>>
    /\ epoch_params' = Append(epoch_params, param)
    /\ UNCHANGED <<args, error, phase, run_vars, round_vars, param, grad,
                   restore_res, client_vars, elog, cohort_lens, run_flag,
                   raw_grads, drawn>>

\* Server.test -> evaluate(test_data, load_model=True) (lines 334-335,
\* 283-285): the checkpoint replaces the model
ServerTest ==
    /\ pc = "trained"
    /\ IF saved = None
       THEN /\ error' = ErrNoCheckpoint
            /\ pc' = "crashed"
            /\ param' = param
       ELSE /\ param' = saved[1]
            /\ pc' = "done"
            /\ error' = error
    /\ UNCHANGED <<args, train_vars, run_vars, round_vars, grad, saved,
                   restore_res, client_vars, hist_vars>>

(* --------------------------- specification ---------------------------- *)

\* gradients a user's backward pass may produce, per user and parameter
Grads ==
    [u \in 0..(MaxUsers - 1) |->
        [n \in ParamNames |->
            IF n = "enc" THEN {<<<<1, 0, 0, 0>>>>}
            ELSE IF u = 0 THEN {<<<<3>>, <<1>>, <<0>>, <<0>>>>,
                                <<<<0>>, <<4>>, <<0>>, <<0>>>>}
            ELSE {<<<<3>>, <<1>>, <<0>>, <<0>>>>}]]

\* shares randn_like may draw, per sender and parameter
Shares ==
    [u \in 0..(MaxUsers - 1) |->
        [n \in ParamNames |->
            IF n = "enc" THEN {<<<<1, -1, 0, 0>>>>}
            ELSE IF u = 0 THEN {<<<<2>>, <<-1>>, <<0>>, <<0>>>>,
                                <<<<-1>>, <<-1>>, <<0>>, <<0>>>>}
            ELSE {<<<<2>>, <<-1>>, <<0>>, <<0>>>>}]]

Next ==
    \/ TrainEpoch
    \/ RunRound
    \/ ClientsTrainLoad
    \/ ClientGrad(Grads)
    \/ ClientsPerturbMPC(Shares)
    \/ ClientsPerturbNoNeighbor
    \/ ClientsPerturbIdentity
    \/ ServerAggregate
    \/ ServerStep
    \/ ServerRestore
    \/ RunReturn
    \/ UpdatePrior
    \/ TrainEvaluate
    \/ ServerTest

Spec == Init /\ [][Next]_vars

(* ---- the restoration attack on many gradients ---- *)

\* values an element of the attacked user's decoder gradient may take
DecValues == {-5, 0, 1, 5}

\* user 0 may produce any decoder gradient over DecValues, the others one
GradsAttack ==
    [u \in 0..(MaxUsers - 1) |->
        [n \in ParamNames |->
            IF n = "enc" THEN {<<<<1, 0, 0, 0>>>>}
            ELSE IF u = 0
                 THEN {[r \in 1..NItems |-> <<v[r]>>] : v \in [1..NItems -> DecValues]}
                 ELSE {<<<<3>>, <<1>>, <<0>>, <<0>>>>}]]

\* one joint epoch with the attack, no shares: the server sees the users'
\* own gradients; <<n_users, batch_size>> is one user, two users in one
\* cohort, or two cohorts of one user
AttackArgs ==
    {[BaseArgs EXCEPT !.alternating = FALSE, !.xi = 0, !.epochs = 1,
                      !.n_users = pop[1], !.batch_size = pop[2],
                      !.use_enc_grad = ue] :
        pop \in {<<1, 1>>, <<2, 2>>, <<2, 1>>}, ue \in BOOLEAN}

InitAttack == InitWith(AttackArgs)

NextAttack ==
    \/ TrainEpoch
    \/ RunRound
    \/ ClientsTrainLoad
    \/ ClientGrad(GradsAttack)
    \/ ClientsPerturbMPC(Shares)
    \/ ServerAggregate
    \/ ServerStep
    \/ ServerRestore
    \/ RunReturn
    \/ TrainEvaluate
    \/ ServerTest

SpecAttack == InitAttack /\ [][NextAttack]_vars

(* --------------------------- properties ------------------------------- *)

\* element (r, c) of parameter name, summed over the users of a mapping
RECURSIVE ElemSum(_, _, _, _, _)
ElemSum(cg, name, r, c, k) ==
    IF k > Len(cg) THEN 0 ELSE cg[k].g[name][r][c] + ElemSum(cg, name, r, c, k + 1)

\* Clients.train has returned the perturbed mapping of the current round
TrainReturned == pc \in {"aggregate", "step", "restore"}

\* C1: with the MPC strategy and xi >= 1, the mapping Clients.train returns
\* has, for every parameter and every element, the same sum over the cohort
\* as the gradients the users computed, so the server's aggregate of the
\* perturbed gradients is the aggregate of the unperturbed ones.
C1_ShareConservation ==
    (TrainReturned /\ args.perturb_method = "MPC" /\ args.xi >= 1) =>
        /\ Len(clients_grads) = Len(raw_grads)
        /\ \A name \in ParamNames :
              /\ \A r \in 1..Rows(name), c \in 1..Cols(name) :
                    ElemSum(clients_grads, name, r, c, 1)
                        = ElemSum(raw_grads, name, r, c, 1)
              /\ aggregated_gradients(clients_grads, name)
                    = aggregated_gradients(raw_grads, name)

\* C1 happens: three users exchanged shares and every user's decoder gradient
\* left the exchange changed
C1_Witness ==
    /\ pc = "aggregate"
    /\ args.perturb_method = "MPC"
    /\ args.xi >= 1
    /\ Len(clients_grads) = 3
    /\ \A k \in 1..3 : clients_grads[k].g["dec"] # raw_grads[k].g["dec"]

\* the mean over the cohort of parameter name: summed, then divided once
MeanOf(cg, name) ==
    [r \in 1..Rows(name) |->
        [c \in 1..Cols(name) |-> Rat(ElemSum(cg, name, r, c, 1), Len(cg))]]

\* C2 as stated: after aggregate_gradients every trainable parameter's
\* gradient is the mean over the cohort of the users' gradients.
C2_MeanEveryParam ==
    pc = "step" => \A name \in ParamNames : grad[name] = MeanOf(clients_grads, name)

\* C2 amended: aggregate_gradients leaves, for every parameter owned by one
\* of the round's optimizers and for every parameter that has no accumulator
\* yet, exactly the mean over the cohort of the users' gradients; for any
\* other parameter it adds that mean to what the accumulator already holds.
C2_MeanOwnedParam ==
    [][(pc = "aggregate" /\ pc' = "step") =>
          \A name \in ParamNames :
              grad'[name] =
                  IF Owner(name) \in opts \/ grad[name] = None
                  THEN MeanOf(clients_grads, name)
                  ELSE RTAdd(grad[name], MeanOf(clients_grads, name))]_vars

\* C2 happens: a cohort of two whose (perturbed) gradients differ has been
\* aggregated, and the mean is not a whole number
C2_Witness ==
    /\ pc = "step"
    /\ Len(clients_grads) = 2
    /\ clients_grads[1].g["dec"] # clients_grads[2].g["dec"]
    /\ \E r \in 1..Rows("dec") : grad["dec"][r][1][2] # 1

\* the best metric among the first k epochs, -inf for none
RECURSIVE PrefixMax(_, _)
PrefixMax(h, k) ==
    IF k = 0 THEN NegInf
    ELSE LET m == PrefixMax(h, k - 1) IN IF h[k] > m THEN h[k] ELSE m

\* epoch k (1-based) improved on every epoch before it
IsRecord(h, k) == h[k] > PrefixMax(h, k - 1)

\* the last epoch that improved, 0 for none
LastRecord(h) ==
    CHOOSE k \in 0..Len(h) :
        /\ k = 0 \/ IsRecord(h, k)
        /\ \A j \in (k + 1)..Len(h) : ~IsRecord(h, j)

\* the training loop is about to start another epoch only while fewer than
\* early_stop epochs have passed since the last improvement, and it has ended
\* only at the configured maximum or exactly early_stop epochs after it
StopsOnTime ==
    /\ (pc = "train_loop" /\ ndcgs # <<>>) =>
           Len(ndcgs) - LastRecord(ndcgs) < args.early_stop
    /\ pc = "trained" =>
           \/ Len(ndcgs) = args.epochs
           \/ Len(ndcgs) - LastRecord(ndcgs) = args.early_stop

\* C4 as stated: training halts exactly early_stop epochs after the last
\* epoch that improved the validation metric, never earlier, never later.
C4_StopAfterPatience == StopsOnTime

\* C4 amended: for early_stop >= 1 training halts exactly early_stop epochs
\* after the last improving epoch (or at the configured maximum), never
\* earlier, never later; for early_stop <= 0 it never halts early.
C4_StopAfterPositivePatience ==
    /\ args.early_stop >= 1 => StopsOnTime
    /\ (args.early_stop <= 0 /\ pc = "trained") => Len(ndcgs) = args.epochs

\* C4 happens: training stopped before the maximum, counted from an
\* improvement that was not the first epoch
C4_Witness ==
    /\ pc = "trained"
    /\ args.early_stop >= 1
    /\ Len(ndcgs) < args.epochs
    /\ LastRecord(ndcgs) >= 2

\* the events of the active Server.run call, in order
CallEvents == SelectSeq(elog, LAMBDA e : e.phase = phase)

\* C5: a Server.run call entered with the restore flag runs the restoration
\* attack exactly once, right after the step of the first cohort it
\* processes and on that cohort; a call entered without the flag never runs it.
C5_RestoreOncePerRun ==
    LET ev == CallEvents
    IN  phase # "none" =>
            /\ \A i \in 1..Len(ev) :
                  ev[i].ev = "restore" =>
                      /\ run_flag
                      /\ i = 2
                      /\ ev[1].ev = "round"
                      /\ ev[2].n = ev[1].n
                      /\ ev[2].pass = 1
            /\ (run_flag /\ Len(ev) >= 1 /\ pc # "restore") =>
                  (Len(ev) >= 2 /\ ev[2].ev = "restore")

\* C5 happens: a flagged call ran three rounds or more to its end, the
\* attack after the first
C5_Witness ==
    /\ pc = "evaluate"
    /\ run_flag
    /\ error = ""
    /\ Len(CallEvents) >= 4

\* rounds (cohorts) of one pass over the users
CohortsPerPass == (args.n_users + args.batch_size - 1) \div args.batch_size

\* positions of the prior update in the epoch's events
PriorAt == {i \in 1..Len(elog) : elog[i].ev = "prior"}

\* the number of rounds among the epoch's events lo..hi
RoundsBetween(lo, hi) ==
    Cardinality({i \in lo..hi : i \in 1..Len(elog) /\ elog[i].ev = "round"})

\* C6: an alternating epoch runs n_enc_epochs passes that step the encoder
\* only, with the configured dropout, then updates the prior once, then runs
\* n_dec_epochs passes that step the decoder only, with dropout 0; the
\* restoration attack runs only in the decoder phase and only in an epoch
\* listed in restore_epochs.
C6_AlternatingOrder ==
    (args.alternating /\ phase # "none") =>
        /\ Cardinality(PriorAt) <= 1
        /\ \A i \in 1..Len(elog) :
              LET e == elog[i]
                  before == \A p \in PriorAt : i < p
              IN  /\ (e.ev = "round" /\ before) =>
                         /\ e.opts = {"optimizer_encoder"}
                         /\ e.dropout = args.dropout_prob
                         /\ e.pass \in 1..args.n_enc_epochs
                  /\ (e.ev = "round" /\ ~before) =>
                         /\ e.opts = {"optimizer_decoder"}
                         /\ e.dropout = 0
                         /\ e.pass \in 1..args.n_dec_epochs
                  /\ e.ev = "restore" =>
                         /\ ~before
                         /\ (e.epoch + 1) \in args.restore_epochs
                  /\ e.ev = "prior" =>
                         RoundsBetween(1, i) = args.n_enc_epochs * CohortsPerPass
        /\ pc = "evaluate" =>
              /\ Cardinality(PriorAt) = 1
              /\ \A p \in PriorAt :
                    RoundsBetween(p, Len(elog)) = args.n_dec_epochs * CohortsPerPass

\* C6 happens: the second epoch of a schedule with two encoder and two
\* decoder passes is over, the attack ran in it
C6_Witness ==
    /\ pc = "evaluate"
    /\ args.alternating
    /\ epoch = 1
    /\ args.n_enc_epochs = 2
    /\ args.n_dec_epochs = 2
    /\ \E i \in 1..Len(elog) : elog[i].ev = "restore"

\* the users of the epoch's rounds i.., counted
RECURSIVE UsersServed(_)
UsersServed(i) ==
    IF i > Len(elog) THEN 0
    ELSE (IF elog[i].ev = "round" THEN elog[i].n ELSE 0) + UsersServed(i + 1)

\* C7 as stated: in joint mode every epoch runs exactly one round, for every
\* n_users and batch_size.
C7_OneRoundPerEpoch ==
    (~args.alternating /\ pc = "evaluate") => RoundsBetween(1, Len(elog)) = 1

\* C7 amended: in joint mode every epoch runs exactly one pass over the
\* users, ceil(n_users / batch_size) rounds (one round only when batch_size
\* >= n_users); every round is one Clients.train call and one step of both
\* optimizers with the configured dropout, and there is no prior update.
C7_OnePassPerEpoch ==
    (~args.alternating /\ phase # "none") =>
        /\ \A i \in 1..Len(elog) :
              /\ elog[i].ev # "prior"
              /\ elog[i].ev = "round" =>
                    /\ elog[i].opts = {"optimizer_encoder", "optimizer_decoder"}
                    /\ elog[i].dropout = args.dropout_prob
                    /\ elog[i].pass = 1
        /\ pc = "evaluate" =>
              /\ RoundsBetween(1, Len(elog)) = CohortsPerPass
              /\ UsersServed(1) = args.n_users
              /\ Len(cohort_lens) = (epoch + 1) * CohortsPerPass
              /\ \A name \in ParamNames : param[name] = (epoch + 1) * CohortsPerPass

\* C7 happens: a joint epoch of three rounds or more is over
C7_Witness ==
    /\ ~args.alternating
    /\ pc = "evaluate"
    /\ RoundsBetween(1, Len(elog)) >= 3

\* bytes of one user's gradient bundle: one tensor per trainable parameter
BundleBytes ==
    (Rows("enc") * Cols("enc") + Rows("dec") * Cols("dec")) * ElemBytes

\* (download + perturbation + upload) / |cohort| in megabytes for a cohort of
\* n users: the state to every user, xi share bundles from every user, one
\* gradient bundle from every user
ExpectedEntry(n) ==
    Rat(get_size_state * n + n * args.xi * BundleBytes + n * BundleBytes, MB * n)

\* a Clients.train call has opened its ledger entry and has not returned
InTrainCall ==
    \/ pc \in {"client_grad", "perturb"}
    \/ pc = "crashed" /\ error \in TrainErrors

\* C8: the ledger holds one entry per completed Clients.train call (and the
\* open entry of a call in progress), the entry of a completed call is
\* (download + perturbation + upload) / |cohort| megabytes, and no step ever
\* removes or changes the entry of a completed call.
C8_Ledger ==
    /\ [](/\ Len(communication_cost)
                 = Len(cohort_lens) + (IF InTrainCall THEN 1 ELSE 0)
          /\ \A k \in 1..Len(cohort_lens) :
                communication_cost[k] = ExpectedEntry(cohort_lens[k]))
    /\ [][/\ Len(communication_cost') >= Len(communication_cost)
          /\ \A k \in 1..Len(cohort_lens) :
                communication_cost'[k] = communication_cost[k]]_vars

\* C8 happens: three calls or more have completed with shares exchanged
\* between two users or more
C8_Witness ==
    /\ Len(cohort_lens) >= 3
    /\ Len(communication_cost) = Len(cohort_lens)
    /\ args.xi >= 1
    /\ \A k \in 1..Len(cohort_lens) : cohort_lens[k] >= 2

\* the earliest epoch (1-based) that attains the best metric so far
FirstArgMax(h) ==
    CHOOSE k \in 1..Len(h) :
        /\ h[k] = PrefixMax(h, Len(h))
        /\ \A j \in 1..(k - 1) : h[j] < h[k]

\* C9: a checkpoint is written at the end of an epoch exactly when the
\* epoch's metric is strictly greater than the best so far; the stored
\* checkpoint is the model at the end of the earliest epoch that attains the
\* maximum so far; the best never decreases; Server.test evaluates the
\* checkpoint.
C9_Checkpoint ==
    /\ [](/\ ndcgs = <<>> => (saved = None /\ best_ndcg = NegInf)
          /\ ndcgs # <<>> =>
                /\ saved = <<epoch_params[FirstArgMax(ndcgs)]>>
                /\ best_ndcg = PrefixMax(ndcgs, Len(ndcgs))
          /\ pc = "done" => param = epoch_params[FirstArgMax(ndcgs)])
    /\ [][/\ best_ndcg' >= best_ndcg
          /\ (pc = "evaluate" /\ pc' # "evaluate") =>
                IF ndcgs'[Len(ndcgs')] > best_ndcg
                THEN saved' = <<param>>
                ELSE saved' = saved]_vars

\* C9 happens: the test ran on the checkpoint of the second epoch, which a
\* later epoch tied and which is not the model the training ended with
C9_Witness ==
    /\ pc = "done"
    /\ Len(ndcgs) >= 3
    /\ FirstArgMax(ndcgs) = 2
    /\ ndcgs[3] = ndcgs[2]
    /\ param # epoch_params[Len(ndcgs)]

\* C10 as stated: with the encoder and decoder gradient names the same, the
\* restoration attack completes without error.
C10_SameNamesComplete ==
    (/\ args.enc_name = args.dec_name
     /\ \E i \in 1..Len(elog) : elog[i].ev = "restore") => error = ""

\* the item rows of a decoder gradient whose sum is not zero
LiveRows(dec) == {r \in 1..Len(dec) : SeqSum(dec[r]) # 0}

\* the item rows the clustering labelled lab in the attack result r (label k
\* is that of the k-th live row)
ClusterOf(r, lab) ==
    {Kth(LiveRows(r.dec), k) : k \in {j \in 1..Len(r.labels) : r.labels[j] = lab}}

\* the L2 norms of the rows S of a one-column gradient, summed
NormOfRows(dec, S) ==
    SeqSum([r \in 1..Len(dec) |-> IF r \in S THEN Abs(dec[r][1]) ELSE 0])

\* the rows A have a larger mean norm than the rows B (both non-empty)
MeanGreater(dec, A, B) ==
    NormOfRows(dec, A) * Cardinality(B) > NormOfRows(dec, B) * Cardinality(A)

\* the items an attack result predicts as interacted
Predicted(r) == {i \in 1..Len(r.x_pred) : r.x_pred[i] = 1}

\* the attack results without encoder refinement whose clustering used both
\* labels
TwoClusterResults ==
    {k \in 1..Len(restore_res) :
        /\ ~args.use_enc_grad
        /\ ClusterOf(restore_res[k], 0) # {}
        /\ ClusterOf(restore_res[k], 1) # {}}

\* C11 as stated: when both clusters are non-empty the prediction is 1
\* exactly on the rows of the cluster with the larger mean norm, whichever
\* label the clustering gave it, and 0 on every other item.
C11_LargerNormCluster ==
    \A k \in TwoClusterResults :
        LET r == restore_res[k]
            A == ClusterOf(r, 1)
            B == ClusterOf(r, 0)
        IN  /\ Len(r.x_pred) = NItems
            /\ Predicted(r) \in {A, B}
            /\ MeanGreater(r.dec, Predicted(r), (A \cup B) \ Predicted(r))

\* C11 amended: when both clusters are non-empty and their mean norms
\* differ, the prediction is 1 exactly on the rows of the cluster with the
\* larger mean norm, whichever label the clustering gave it, and 0 on every
\* other item; when the mean norms are equal it is 1 exactly on the rows of
\* the cluster the clustering labelled 1.
C11_LargerNormOrLabelOne ==
    \A k \in TwoClusterResults :
        LET r == restore_res[k]
            A == ClusterOf(r, 1)
            B == ClusterOf(r, 0)
        IN  /\ Len(r.x_pred) = NItems
            /\ Predicted(r) = IF MeanGreater(r.dec, B, A) THEN B ELSE A

\* C11 happens: zero rows at items 0 and 2, row 1 of norm 5 and row 3 of
\* norm 1, the clustering named the larger row 0: the prediction is item 1
C11_Witness ==
    \E k \in TwoClusterResults :
        /\ restore_res[k].dec = <<<<0>>, <<5>>, <<0>>, <<1>>>>
        /\ restore_res[k].labels = <<0, 1>>
        /\ restore_res[k].x_pred = <<0, 1, 0, 0>>

\* C12: with the MPC strategy and xi = 0 the mapping Clients.train gets back
\* from MPC_perturb is the mapping the users computed (same users, same
\* names, same values), and the perturbation adds nothing to the round's
\* ledger entry: the entry is (download + upload) / |cohort|.
C12_NoFanOutNoOp ==
    (TrainReturned /\ args.perturb_method = "MPC" /\ args.xi = 0) =>
        /\ clients_grads = raw_grads
        /\ communication_cost[Len(communication_cost)]
              = Rat(get_size_state * Len(raw_grads) + BundleBytes * Len(raw_grads),
                    MB * Len(raw_grads))

\* C12 happens: a cohort of three whose users computed different gradients
\* came back from the perturbation with xi = 0
C12_Witness ==
    /\ pc = "aggregate"
    /\ args.perturb_method = "MPC"
    /\ args.xi = 0
    /\ Len(raw_grads) = 3
    /\ \E j, k \in 1..3 : raw_grads[j].g # raw_grads[k].g

\* C13: while Clients.train collects the bundles, the bundle stored for a
\* user is a gradient of the loss on that user's own data alone, whoever
\* else is in the cohort and wherever the user stands in it, and a stored
\* bundle is not changed by the steps of the users after it.
C13_ClientIsolation ==
    /\ [](pc \in {"client_grad", "perturb"} =>
              \A k \in 1..Len(clients_grads) :
                  /\ clients_grads[k].uid = uids[k]
                  /\ \A n \in ParamNames :
                        clients_grads[k].g[n] \in Grads[uids[k]][n])
    /\ [][pc = "client_grad" =>
              \A k \in 1..Len(clients_grads) :
                  clients_grads'[k] = clients_grads[k]]_vars

\* C13 happens: in a cohort of three the last user computed a gradient
\* unlike those of the two before it, and all three bundles are stored
C13_Witness ==
    /\ pc = "perturb"
    /\ Len(clients_grads) = 3
    /\ clients_grads[1].g = clients_grads[2].g
    /\ clients_grads[3].g # clients_grads[2].g

\* where the program is inside Clients.train
ClientPcs == {"clients_train", "client_grad", "perturb"}

\* where the program is inside a round of Server.run
RoundPcs == ClientPcs \cup {"run_loop", "aggregate", "step", "restore"}

\* C14: no step of Clients.train changes a parameter value or a gradient
\* accumulator of the server's model; within a round the parameters change
\* only at the optimizer step and the accumulators only at the zeroing and
\* at the aggregation.
C14_ServerStateFrame ==
    [][/\ pc \in ClientPcs => (param' = param /\ grad' = grad)
       /\ (pc \in RoundPcs /\ param' # param) => pc = "step"
       /\ (pc \in RoundPcs /\ grad' # grad) => pc \in {"run_loop", "aggregate"}]_vars

\* C14 happens: Clients.train has returned while the server's model had
\* been stepped before and held accumulators from an earlier round
C14_Witness ==
    /\ pc = "aggregate"
    /\ \E n \in ParamNames : param[n] >= 1
    /\ \E n \in ParamNames : grad[n] # None
    /\ cmodel = param

\* C15: the upload cost of the mapping Clients.train sends is the full size
\* in megabytes of every tensor of every user, zero rows included; every
\* ledger entry is non-negative, and the entry of a completed call is at
\* least its download, its perturbation and its upload component, each
\* divided by the cohort size.
C15_UploadCost ==
    /\ (TrainReturned /\ args.perturb_method = "MPC") =>
           count_update_communication_cost(clients_grads)
               = Rat(Len(clients_grads) * BundleBytes, MB)
    /\ \A k \in 1..Len(communication_cost) :
           communication_cost[k][1] >= 0 /\ communication_cost[k][2] > 0
    /\ \A k \in 1..Len(cohort_lens) :
           \A part \in {get_size_state, args.xi * BundleBytes, BundleBytes} :
               ~RLess(communication_cost[k], Rat(part, MB))

\* C15 happens: two users or more, shares exchanged, sent gradients with
\* zero rows, and the call's entry is in the ledger
C15_Witness ==
    /\ pc = "aggregate"
    /\ args.xi >= 1
    /\ Len(clients_grads) >= 2
    /\ \A k \in 1..Len(clients_grads) : clients_grads[k].g["dec"][NItems] = <<0>>
    /\ Len(communication_cost) = Len(cohort_lens)

\* C16: at the moment the optimizers step, the accumulator of every
\* parameter a stepping optimizer owns is the mean of the current cohort's
\* (perturbed) gradients and nothing else, in both modes and after any
\* earlier rounds, phases and epochs.
C16_NoStaleGradients ==
    pc = "step" =>
        \A name \in ParamNames :
            Owner(name) \in opts => grad[name] = MeanOf(clients_grads, name)

\* C16 happens: in the second epoch an optimizer is about to step while the
\* accumulator of the parameter it does not own holds more than this
\* cohort's mean
C16_Witness ==
    /\ pc = "step"
    /\ epoch >= 1
    /\ \E name \in ParamNames :
          /\ Owner(name) \notin opts
          /\ grad[name] # MeanOf(clients_grads, name)

\* C17: in alternating mode no step of the encoder phase changes the
\* decoder's parameter and no step of the decoder phase changes the
\* encoder's, while every round aggregates gradients for both.
C17_PhaseFrame ==
    /\ [][(args.alternating /\ pc \in RoundPcs) =>
              /\ phase = "enc" => param'["dec"] = param["dec"]
              /\ phase = "dec" => param'["enc"] = param["enc"]]_vars
    /\ [](args.alternating /\ pc = "step" =>
              \A name \in ParamNames : grad[name] # None)

\* C17 happens: a decoder phase of two passes is over; the decoder has moved
\* twice as often as the encoder
C17_Witness ==
    /\ args.alternating
    /\ pc = "evaluate"
    /\ args.n_dec_epochs = 2
    /\ param["enc"] = 1
    /\ param["dec"] = 2

\* the share drawn for pair p of the round's exchange and parameter name
ShareOf(p, name) == IF name = "enc" THEN drawn[1].se[p] ELSE drawn[1].sd[p]

\* the sender of pair p, and its recipient: the pairs of a sender follow one
\* another, its recipients in ascending order
SenderOf(p) == ((p - 1) \div args.xi) + 1
RecipientOf(p) == Kth(drawn[1].to[SenderOf(p)], ((p - 1) % args.xi) + 1)

\* element (r, c) of parameter name of user k: what the pairs from p on
\* take from it (as sender) and give to it (as recipient)
RECURSIVE NetShare(_, _, _, _, _)
NetShare(k, name, r, c, p) ==
    IF p > Len(raw_grads) * args.xi THEN 0
    ELSE (IF RecipientOf(p) = k THEN ShareOf(p, name)[r][c] ELSE 0)
         - (IF SenderOf(p) = k THEN ShareOf(p, name)[r][c] ELSE 0)
         + NetShare(k, name, r, c, p + 1)

\* C18: for a cohort of n users with fan-out xi, MPC_perturb draws one share
\* per (sender, recipient, parameter): every sender has xi recipients among
\* the other users, n * xi pairs in all; every user's gradient comes out as
\* its own gradient minus the shares it sent plus the shares sent to it; and
\* the cost added to the round's ledger entry is n * xi gradient bundles in
\* megabytes.
C18_PerturbationCost ==
    (pc = "aggregate" /\ args.perturb_method = "MPC" /\ args.xi >= 1) =>
        LET n == Len(raw_grads)
        IN  /\ Len(drawn[1].se) = n * args.xi
            /\ Len(drawn[1].sd) = n * args.xi
            /\ \A i \in 1..n :
                  /\ drawn[1].to[i] \subseteq (1..n) \ {i}
                  /\ Cardinality(drawn[1].to[i]) = args.xi
            /\ \A k \in 1..n, name \in ParamNames :
               \A r \in 1..Rows(name), c \in 1..Cols(name) :
                  clients_grads[k].g[name][r][c]
                      = raw_grads[k].g[name][r][c] + NetShare(k, name, r, c, 1)
            /\ RAdd(Rat(n * args.xi * BundleBytes, MB * n),
                    Rat(get_size_state * n + BundleBytes * n, MB * n))
                  = communication_cost[Len(communication_cost)]

\* C18 happens: three users sent shares to two recipients each
C18_Witness ==
    /\ pc = "aggregate"
    /\ args.perturb_method = "MPC"
    /\ args.xi = 2
    /\ Len(raw_grads) = 3
    /\ Len(drawn[1].se) = 6

\* C19 as stated: when a user's restricted rows all fall into one cluster, or
\* fewer than two item rows have a non-zero gradient sum, the restoration
\* attack does not crash.
C19_DegenerateNoCrash ==
    (\E i \in 1..Len(elog) : elog[i].ev = "restore") => error # ErrKMeans

\* C3 as stated: with a strategy other than MPC, Clients.train completes:
\* no exception ends the program.
C3_IdentityCompletes ==
    args.perturb_method # "MPC" => error = ""

====
